---- MODULE Spec2Model ----
(***************************************************************************)
(* DeepGalaxy flashcard scheduler (src/app.js, first program version,      *)
(* lines 1-683; the second version, lines 685-1569, has the same           *)
(* scheduling code).                                                       *)
(*                                                                         *)
(* Numbers.  The ease factor EF is held as an exact decimal fixed-point    *)
(* number, EF = ef / EFScale.  Every review adds a multiple of 0.01 and    *)
(* multiplies by 0.9, 1.0 or 1.1, so after k reviews EF has at most 2 + k  *)
(* decimals; EFScale keeps five, so the EF of a card is exact through its  *)
(* first three reviews and rounded to five decimals afterwards.  The       *)
(* statistics of calculateCardStats use Math.exp, Math.log2 and            *)
(* Math.log10; they are computed in fixed point with four decimals         *)
(* (StatScale), by series, and are within 2e-4 of the real value.          *)
(*                                                                         *)
(* Time.  Timestamps are whole days; the clock moves in steps of DaySteps. *)
(* Date arithmetic of the source (setDate, differences / 864e5) is day     *)
(* arithmetic on these values.  Requests to the database are answered      *)
(* within the day.                                                         *)
(*                                                                         *)
(* Concurrency.  Every async function of the source runs until its next    *)
(* await and is resumed when the awaited IndexedDB request is answered.    *)
(* Requests on one object store are answered in the order they were made   *)
(* (dbq); requests on different stores are answered in any order.  A click *)
(* is possible whenever the page last rendered has the button, except     *)
(* that nothing is clicked on a page the user has asked to leave.  A card  *)
(* object of state.studyQueue is shared by reference with the calls that   *)
(* read it (heap).  db.put and db.add may fail; the reads do not.          *)
(*                                                                         *)
(* The database starts empty, with new cards, or as the reviews of History *)
(* left it.  MaxEvents bounds the clicks, days and failed requests of a    *)
(* run together.                                                           *)
(*                                                                         *)
(* Decks and the card form.  There are NumDecks decks and the cards of the *)
(* initial stores are dealt to them in turn.  Of a card record the model   *)
(* keeps the id, the deck and the scheduling fields; the texts and images  *)
(* the form edits are left out.  The pages of the deck list and of the     *)
(* card list only read the stores and are rendered at once.  The requests  *)
(* of saveCard do not fail, and the question about a duplicate card is     *)
(* answered with yes.  Decks are not edited and cards are deleted from the *)
(* study page only.  Spec is the program without these pages (the user     *)
(* stays with the dashboard and the study session), CardSpec the program   *)
(* with them.                                                              *)
(***************************************************************************)
EXTENDS Integers, Sequences, FiniteSets, TLC

(* ------------------------------ bounds -------------------------------- *)
NumCards == 2
MaxInFlight == 2
MaxEvents == 4
DaySteps == {1, 31}
NumDecks == 2

(* ----------------------------- numerics ------------------------------- *)
EFScale == 100000
StatScale == 10000
LnScale == 100000
Ln2 == 69315

Max(a, b) == IF a >= b THEN a ELSE b
Min(a, b) == IF a <= b THEN a ELSE b

\* Math.round(num / den) for num >= 0, den > 0: halves round up.
Round(num, den) ==
    LET f == num \div den
        r == num % den
    IN  IF 2 * r >= den THEN f + 1 ELSE f

\* EF literal with two decimals, e.g. EFLit(250) = 2.5.
EFLit(hundredths) == hundredths * (EFScale \div 100)

\* EF in units of 1 / StatScale (truncated), for the statistics.
EFStat(ef) == ef \div (EFScale \div StatScale)

RECURSIVE Pow2Below(_, _)
\* largest power of two p with p <= m, starting from p
Pow2Below(m, p) == IF 2 * p <= m THEN Pow2Below(m, 2 * p) ELSE p

RECURSIVE Log2Floor(_)
Log2Floor(m) == IF m < 2 THEN 0 ELSE 1 + Log2Floor(m \div 2)

RECURSIVE AtanhSeries(_, _, _)
\* z + z^3/3 + z^5/5 + ... + z^11/11 in units of 1 / LnScale
AtanhSeries(t, z2, j) ==
    IF j > 11 THEN 0
    ELSE (t \div j) + AtanhSeries((t * z2) \div LnScale, z2, j + 2)

\* Math.log(m) for an integer m >= 1, in units of 1 / LnScale:
\* m = 2^k * r, ln m = k ln 2 + 2 atanh((r - 1) / (r + 1)).
Ln(m) ==
    LET p == Pow2Below(m, 1)
        z == ((m - p) * LnScale) \div (m + p)
        z2 == (z * z) \div LnScale
    IN  Log2Floor(m) * Ln2 + 2 * AtanhSeries(z, z2, 1)

\* Math.log2(m) and Math.log10(m) in units of 1 / StatScale.
Log2(m) == (Ln(m) * 2000) \div 13863
Log10(m) == (Ln(m) * 1000) \div 23026

RECURSIVE ExpSeries(_, _, _)
\* 1 - f + f^2/2! - ... for 0 <= f <= 1, in units of 1 / StatScale
ExpSeries(t, f, j) ==
    IF j > 12 THEN 0
    ELSE t - ExpSeries(((t * f) \div StatScale) \div (j + 1), f, j + 1)

RECURSIVE ExpTimes(_, _, _)
ExpTimes(r, e1, i) == IF i = 0 THEN r ELSE ExpTimes((r * e1) \div StatScale, e1, i - 1)

\* Math.exp(-num / den) for num >= 0, den > 0, in units of 1 / StatScale.
\* num and den are first brought below 100000 so that products stay in range.
ExpNeg(num, den) ==
    LET k == (den \div 100000) + 1
        n2 == num \div k
        d2 == den \div k
        i == n2 \div d2
        f == ((n2 % d2) * StatScale) \div d2
    IN  IF i >= 12 THEN 0
        ELSE ExpTimes(ExpSeries(StatScale, f, 0), ExpSeries(StatScale, StatScale, 0), i)

(* ------------------------------ records ------------------------------- *)
\* nextReviewAt: null (line 605), lastReviewAt absent on a new card
NoTime == -1
\* a field the returned object does not have (retentionScore of a new card)
Undefined == -1

CardIds == 1 .. NumCards

\* the decks of object store 'decks', and the deck the cards of the database
\* at start are in
DeckIds == 1 .. NumDecks
DeckOf(id) == ((id + NumDecks - 1) % NumDecks) + 1

\* the scheduling state saveCard gives a new card (line 605)
NewCard(id) ==
    [id |-> id, deckId |-> DeckOf(id), n |-> 0, I |-> 0, EF |-> EFLit(250),
     nextReviewAt |-> NoTime, lastReviewAt |-> NoTime, totalSuccesses |-> 0,
     priorityScore |-> Undefined]

(* ------------------------------ Logic --------------------------------- *)
\* as calculateSM2, with q = 2 counted as a recall in the repetition count
calculateSM2_LapseBelow2(card, q) ==
    LET n == card.n
        I == card.I
        EF == card.EF
        nextN == IF q < 2 THEN 0 ELSE n + 1
        nextI == IF q < 3 THEN 1
                 ELSE IF nextN = 1 THEN 1
                 ELSE IF nextN = 2 THEN 6
                 ELSE Round(I * EF, EFScale)
        delta == 5 - q
        \* 0.1 - delta * (0.08 + delta * 0.02), in hundredths
        change == 10 - delta * (8 + delta * 2)
        rawEF == EF + EFLit(1) * change
        nextEF == IF rawEF < EFLit(130) THEN EFLit(130) ELSE rawEF
    IN  [n |-> nextN, I |-> nextI, EF |-> nextEF]

\* as calculateSM2, without the fixed second interval of 6 days
calculateSM2_NoSecondStep(card, q) ==
    LET n == card.n
        I == card.I
        EF == card.EF
        nextN == IF q < 3 THEN 0 ELSE n + 1
        nextI == IF q < 3 THEN 1
                 ELSE IF nextN = 1 THEN 1
                 ELSE IF nextN = 2 THEN Round(I * EF, EFScale)
                 ELSE Round(I * EF, EFScale)
        delta == 5 - q
        \* 0.1 - delta * (0.08 + delta * 0.02), in hundredths
        change == 10 - delta * (8 + delta * 2)
        rawEF == EF + EFLit(1) * change
        nextEF == IF rawEF < EFLit(130) THEN EFLit(130) ELSE rawEF
    IN  [n |-> nextN, I |-> nextI, EF |-> nextEF]

\* as calculateSM2, with 0.03 for 0.02 in the EF formula
calculateSM2_Change(card, q) ==
    LET n == card.n
        I == card.I
        EF == card.EF
        nextN == IF q < 3 THEN 0 ELSE n + 1
        nextI == IF q < 3 THEN 1
                 ELSE IF nextN = 1 THEN 1
                 ELSE IF nextN = 2 THEN 6
                 ELSE Round(I * EF, EFScale)
        delta == 5 - q
        \* 0.1 - delta * (0.08 + delta * 0.02), in hundredths
        change == 10 - delta * (8 + delta * 3)
        rawEF == EF + EFLit(1) * change
        nextEF == IF rawEF < EFLit(130) THEN EFLit(130) ELSE rawEF
    IN  [n |-> nextN, I |-> nextI, EF |-> nextEF]

\* as calculateSM2, with the ease factor left as it is on a lapse
calculateSM2_LapseKeepsEF(card, q) ==
    LET n == card.n
        I == card.I
        EF == card.EF
        nextN == IF q < 3 THEN 0 ELSE n + 1
        nextI == IF q < 3 THEN 1
                 ELSE IF nextN = 1 THEN 1
                 ELSE IF nextN = 2 THEN 6
                 ELSE Round(I * EF, EFScale)
        delta == 5 - q
        \* 0.1 - delta * (0.08 + delta * 0.02), in hundredths
        change == 10 - delta * (8 + delta * 2)
        rawEF == IF q < 3 THEN EF ELSE EF + EFLit(1) * change
        nextEF == IF rawEF < EFLit(130) THEN EFLit(130) ELSE rawEF
    IN  [n |-> nextN, I |-> nextI, EF |-> nextEF]

\* Logic.calculateSM2 (lines 66-80)
calculateSM2(card, q) ==
    LET n == card.n
        I == card.I
        EF == card.EF
        nextN == IF q < 3 THEN 0 ELSE n + 1
        nextI == IF q < 3 THEN 1
                 ELSE IF nextN = 1 THEN 1
                 ELSE IF nextN = 2 THEN 6
                 ELSE Round(I * EF, EFScale)
        delta == 5 - q
        \* 0.1 - delta * (0.08 + delta * 0.02), in hundredths
        change == 10 - delta * (8 + delta * 2)
        rawEF == EF + EFLit(1) * change
        nextEF == IF rawEF < EFLit(130) THEN EFLit(130) ELSE rawEF
    IN  [n |-> nextN, I |-> nextI, EF |-> nextEF]

\* The logs the reviewedAt index returns for lowerBound(now - 30 days).
RecentLogs(allLogs, now) ==
    SelectSeq(allLogs, LAMBDA l : l.reviewedAt >= now - 30)

\* as getUserStats, over the whole log store
getUserStats_AllLogs(allLogs, now) ==
    LET res == allLogs
        failed == Len(SelectSeq(res, LAMBDA l : l.q < 3))
    IN  IF Len(res) = 0 THEN [failed |-> 0, of |-> 1, total |-> 0]
        ELSE [failed |-> failed, of |-> Len(res), total |-> Len(res)]

\* forgetRate is the fraction failed / total, kept as the pair; 0 is 0 / 1.
getUserStats(allLogs, now) ==
    LET res == RecentLogs(allLogs, now)
        failed == Len(SelectSeq(res, LAMBDA l : l.q < 3))
    IN  IF Len(res) = 0 THEN [failed |-> 0, of |-> 1, total |-> 0]
        ELSE [failed |-> failed, of |-> Len(res), total |-> Len(res)]

\* forgetRate > c / 100 and forgetRate < c / 100
RateAbove(stats, c) == stats.failed * 100 > c * stats.of
RateBelow(stats, c) == stats.failed * 100 < c * stats.of

\* retentionScore is in units of 1e-8 * 10 (Log2 * EFStat), the scores and
\* probabilities in units of 1 / StatScale.
ScoreUnit == (StatScale * StatScale) \div 10

\* as calculateCardStats, with the fixed result only for a card that was never reviewed
calculateCardStats_Unreviewed(card, now) ==
    IF card.n = 0 /\ card.lastReviewAt = NoTime
    THEN [retention |-> 0, retentionProbability |-> Undefined, forgetRisk |-> StatScale,
          retentionScore |-> Undefined, priorityScore |-> 100 * StatScale]
    ELSE
    LET lastReview == IF card.lastReviewAt # NoTime THEN card.lastReviewAt ELSE now
        t == now - lastReview
        S == Max(card.I * EFStat(card.EF), StatScale \div 10)
        ret == ExpNeg(t * StatScale, S)
        risk == StatScale - ret
        successes == IF card.totalSuccesses # 0 THEN card.totalSuccesses ELSE card.n
        rScore == Min(100 * ScoreUnit, Log2(1 + successes) * EFStat(card.EF))
        overdue == IF card.nextReviewAt # NoTime /\ now > card.nextReviewAt
                   THEN now - card.nextReviewAt ELSE 0
        ps == (risk * 5) \div 10
              + (((100 * ScoreUnit - rScore) \div (ScoreUnit \div 100)) * 3) \div 10
              + ((StatScale \div 10) * StatScale) \div EFStat(card.EF)
              + (Log10(1 + overdue) \div 10)
    IN  [retention |-> Undefined, retentionProbability |-> ret, forgetRisk |-> risk,
         retentionScore |-> rScore, priorityScore |-> ps]

calculateCardStats(card, now) ==
    IF card.n = 0
    THEN [retention |-> 0, retentionProbability |-> Undefined, forgetRisk |-> StatScale,
          retentionScore |-> Undefined, priorityScore |-> 100 * StatScale]
    ELSE
    LET lastReview == IF card.lastReviewAt # NoTime THEN card.lastReviewAt ELSE now
        t == now - lastReview
        S == Max(card.I * EFStat(card.EF), StatScale \div 10)
        ret == ExpNeg(t * StatScale, S)
        risk == StatScale - ret
        successes == IF card.totalSuccesses # 0 THEN card.totalSuccesses ELSE card.n
        rScore == Min(100 * ScoreUnit, Log2(1 + successes) * EFStat(card.EF))
        overdue == IF card.nextReviewAt # NoTime /\ now > card.nextReviewAt
                   THEN now - card.nextReviewAt ELSE 0
        ps == (risk * 5) \div 10
              + (((100 * ScoreUnit - rScore) \div (ScoreUnit \div 100)) * 3) \div 10
              + ((StatScale \div 10) * StatScale) \div EFStat(card.EF)
              + (Log10(1 + overdue) \div 10)
    IN  [retention |-> Undefined, retentionProbability |-> ret, forgetRisk |-> risk,
         retentionScore |-> rScore, priorityScore |-> ps]

RECURSIVE InsertDesc(_, _)
\* x goes behind every element whose priorityScore is >= its own
InsertDesc(s, x) ==
    IF s = <<>> THEN <<x>>
    ELSE IF Head(s).priorityScore >= x.priorityScore
         THEN <<Head(s)>> \o InsertDesc(Tail(s), x)
         ELSE <<x>> \o s

RECURSIVE SortDesc(_)
\* Array.prototype.sort with (a, b) => b.priorityScore - a.priorityScore (stable)
SortDesc(s) ==
    IF s = <<>> THEN <<>>
    ELSE InsertDesc(SortDesc(SubSeq(s, 1, Len(s) - 1)), s[Len(s)])

\* as getDueCards, with a card due only after its nextReviewAt has passed
getDueCards_Before(allCards, now) ==
    LET withP == [i \in 1 .. Len(allCards) |->
                    [allCards[i] EXCEPT
                       !.priorityScore = calculateCardStats(allCards[i], now).priorityScore]]
        due == SelectSeq(withP, LAMBDA c :
                    \/ c.nextReviewAt = NoTime
                    \/ c.nextReviewAt < now
                    \/ c.priorityScore >= 6 * (StatScale \div 10))
    IN  SortDesc(due)

\* as getDueCards, without the sort of line 120
getDueCards_Unsorted(allCards, now) ==
    LET withP == [i \in 1 .. Len(allCards) |->
                    [allCards[i] EXCEPT
                       !.priorityScore = calculateCardStats(allCards[i], now).priorityScore]]
        due == SelectSeq(withP, LAMBDA c :
                    \/ c.nextReviewAt = NoTime
                    \/ c.nextReviewAt <= now
                    \/ c.priorityScore >= 6 * (StatScale \div 10))
    IN  due

\* getDueCards on the records db.getAll('cards') returned, at time now
getDueCards(allCards, now) ==
    LET withP == [i \in 1 .. Len(allCards) |->
                    [allCards[i] EXCEPT
                       !.priorityScore = calculateCardStats(allCards[i], now).priorityScore]]
        due == SelectSeq(withP, LAMBDA c :
                    \/ c.nextReviewAt = NoTime
                    \/ c.nextReviewAt <= now
                    \/ c.priorityScore >= 6 * (StatScale \div 10))
    IN  SortDesc(due)

(* ------------------------------- App ---------------------------------- *)
\* const qMap = { 1: 1, 2: 3, 3: 4, 4: 5 }
qMap == [g \in 1 .. 4 |-> IF g = 1 THEN 1 ELSE g + 1]

\* as ReviewUpdate, without Math.max(..., 1.3) at line 663
ReviewUpdate_NoFloor(card, q, userStats, now) ==
    LET eMult == IF RateAbove(userStats, 35) THEN 9
                 ELSE IF RateBelow(userStats, 15) THEN 11 ELSE 10
        cs == calculateCardStats(card, now)
        rMult == IF cs.retentionScore # Undefined /\ cs.retentionScore < 40 * ScoreUnit THEN 8
                 ELSE IF cs.retentionScore # Undefined /\ cs.retentionScore > 80 * ScoreUnit THEN 12
                 ELSE 10
        sm2 == calculateSM2(card, q)
        efNew == Round(sm2.EF * eMult, 10)
        iNew == IF sm2.n > 2 /\ q >= 3 THEN Round(card.I * efNew * rMult, EFScale * 10)
                ELSE IF q < 3 THEN 1
                ELSE sm2.I
        next == now + iNew
    IN  [eMult |-> eMult, rMult |-> rMult, sm2 |-> sm2, efNew |-> efNew, iNew |-> iNew,
         card |-> [card EXCEPT !.n = sm2.n, !.I = iNew, !.EF = efNew,
                               !.nextReviewAt = next, !.lastReviewAt = now,
                               !.totalSuccesses = IF q >= 3 THEN @ + 1 ELSE @]]

\* as ReviewUpdate, with iNew = 0 for 1 at line 665
ReviewUpdate_LapseZero(card, q, userStats, now) ==
    LET eMult == IF RateAbove(userStats, 35) THEN 9
                 ELSE IF RateBelow(userStats, 15) THEN 11 ELSE 10
        cs == calculateCardStats(card, now)
        rMult == IF cs.retentionScore # Undefined /\ cs.retentionScore < 40 * ScoreUnit THEN 8
                 ELSE IF cs.retentionScore # Undefined /\ cs.retentionScore > 80 * ScoreUnit THEN 12
                 ELSE 10
        sm2 == calculateSM2(card, q)
        efNew == Max(Round(sm2.EF * eMult, 10), EFLit(130))
        iNew == IF sm2.n > 2 /\ q >= 3 THEN Round(card.I * efNew * rMult, EFScale * 10)
                ELSE IF q < 3 THEN 0
                ELSE sm2.I
        next == now + iNew
    IN  [eMult |-> eMult, rMult |-> rMult, sm2 |-> sm2, efNew |-> efNew, iNew |-> iNew,
         card |-> [card EXCEPT !.n = sm2.n, !.I = iNew, !.EF = efNew,
                               !.nextReviewAt = next, !.lastReviewAt = now,
                               !.totalSuccesses = IF q >= 3 THEN @ + 1 ELSE @]]

\* as ReviewUpdate, without the retention multiplier 1.2 of line 660
ReviewUpdate_NoBoost(card, q, userStats, now) ==
    LET eMult == IF RateAbove(userStats, 35) THEN 9
                 ELSE IF RateBelow(userStats, 15) THEN 11 ELSE 10
        cs == calculateCardStats(card, now)
        rMult == IF cs.retentionScore # Undefined /\ cs.retentionScore < 40 * ScoreUnit THEN 8
                 ELSE IF cs.retentionScore # Undefined /\ cs.retentionScore > 80 * ScoreUnit THEN 10
                 ELSE 10
        sm2 == calculateSM2(card, q)
        efNew == Max(Round(sm2.EF * eMult, 10), EFLit(130))
        iNew == IF sm2.n > 2 /\ q >= 3 THEN Round(card.I * efNew * rMult, EFScale * 10)
                ELSE IF q < 3 THEN 1
                ELSE sm2.I
        next == now + iNew
    IN  [eMult |-> eMult, rMult |-> rMult, sm2 |-> sm2, efNew |-> efNew, iNew |-> iNew,
         card |-> [card EXCEPT !.n = sm2.n, !.I = iNew, !.EF = efNew,
                               !.nextReviewAt = next, !.lastReviewAt = now,
                               !.totalSuccesses = IF q >= 3 THEN @ + 1 ELSE @]]

\* as ReviewUpdate, with the ease factor lowered from a forgetting rate of 0.35 on
ReviewUpdate_AtThreshold(card, q, userStats, now) ==
    LET eMult == IF ~RateBelow(userStats, 35) THEN 9
                 ELSE IF RateBelow(userStats, 15) THEN 11 ELSE 10
        cs == calculateCardStats(card, now)
        rMult == IF cs.retentionScore # Undefined /\ cs.retentionScore < 40 * ScoreUnit THEN 8
                 ELSE IF cs.retentionScore # Undefined /\ cs.retentionScore > 80 * ScoreUnit THEN 12
                 ELSE 10
        sm2 == calculateSM2(card, q)
        efNew == Max(Round(sm2.EF * eMult, 10), EFLit(130))
        iNew == IF sm2.n > 2 /\ q >= 3 THEN Round(card.I * efNew * rMult, EFScale * 10)
                ELSE IF q < 3 THEN 1
                ELSE sm2.I
        next == now + iNew
    IN  [eMult |-> eMult, rMult |-> rMult, sm2 |-> sm2, efNew |-> efNew, iNew |-> iNew,
         card |-> [card EXCEPT !.n = sm2.n, !.I = iNew, !.EF = efNew,
                               !.nextReviewAt = next, !.lastReviewAt = now,
                               !.totalSuccesses = IF q >= 3 THEN @ + 1 ELSE @]]

\* as ReviewUpdate, with the interval recomputed from the second recall in a row on
ReviewUpdate_FromSecond(card, q, userStats, now) ==
    LET eMult == IF RateAbove(userStats, 35) THEN 9
                 ELSE IF RateBelow(userStats, 15) THEN 11 ELSE 10
        cs == calculateCardStats(card, now)
        rMult == IF cs.retentionScore # Undefined /\ cs.retentionScore < 40 * ScoreUnit THEN 8
                 ELSE IF cs.retentionScore # Undefined /\ cs.retentionScore > 80 * ScoreUnit THEN 12
                 ELSE 10
        sm2 == calculateSM2(card, q)
        efNew == Max(Round(sm2.EF * eMult, 10), EFLit(130))
        iNew == IF sm2.n >= 2 /\ q >= 3 THEN Round(card.I * efNew * rMult, EFScale * 10)
                ELSE IF q < 3 THEN 1
                ELSE sm2.I
        next == now + iNew
    IN  [eMult |-> eMult, rMult |-> rMult, sm2 |-> sm2, efNew |-> efNew, iNew |-> iNew,
         card |-> [card EXCEPT !.n = sm2.n, !.I = iNew, !.EF = efNew,
                               !.nextReviewAt = next, !.lastReviewAt = now,
                               !.totalSuccesses = IF q >= 3 THEN @ + 1 ELSE @]]

\* as ReviewUpdate, with the interval computed from the ease factor the card had before the review
ReviewUpdate_PriorEF(card, q, userStats, now) ==
    LET eMult == IF RateAbove(userStats, 35) THEN 9
                 ELSE IF RateBelow(userStats, 15) THEN 11 ELSE 10
        cs == calculateCardStats(card, now)
        rMult == IF cs.retentionScore # Undefined /\ cs.retentionScore < 40 * ScoreUnit THEN 8
                 ELSE IF cs.retentionScore # Undefined /\ cs.retentionScore > 80 * ScoreUnit THEN 12
                 ELSE 10
        sm2 == calculateSM2(card, q)
        efNew == Max(Round(sm2.EF * eMult, 10), EFLit(130))
        iNew == IF sm2.n > 2 /\ q >= 3 THEN Round(card.I * card.EF * rMult, EFScale * 10)
                ELSE IF q < 3 THEN 1
                ELSE sm2.I
        next == now + iNew
    IN  [eMult |-> eMult, rMult |-> rMult, sm2 |-> sm2, efNew |-> efNew, iNew |-> iNew,
         card |-> [card EXCEPT !.n = sm2.n, !.I = iNew, !.EF = efNew,
                               !.nextReviewAt = next, !.lastReviewAt = now,
                               !.totalSuccesses = IF q >= 3 THEN @ + 1 ELSE @]]

\* submitReview from the resolved userStats to the card assignments
\* (lines 653-672): the multipliers, the corrected EF and interval, and the
\* card as it is handed to db.put.
ReviewUpdate(card, q, userStats, now) ==
    LET eMult == IF RateAbove(userStats, 35) THEN 9
                 ELSE IF RateBelow(userStats, 15) THEN 11 ELSE 10
        cs == calculateCardStats(card, now)
        rMult == IF cs.retentionScore # Undefined /\ cs.retentionScore < 40 * ScoreUnit THEN 8
                 ELSE IF cs.retentionScore # Undefined /\ cs.retentionScore > 80 * ScoreUnit THEN 12
                 ELSE 10
        sm2 == calculateSM2(card, q)
        efNew == Max(Round(sm2.EF * eMult, 10), EFLit(130))
        iNew == IF sm2.n > 2 /\ q >= 3 THEN Round(card.I * efNew * rMult, EFScale * 10)
                ELSE IF q < 3 THEN 1
                ELSE sm2.I
        next == now + iNew
    IN  [eMult |-> eMult, rMult |-> rMult, sm2 |-> sm2, efNew |-> efNew, iNew |-> iNew,
         card |-> [card EXCEPT !.n = sm2.n, !.I = iNew, !.EF = efNew,
                               !.nextReviewAt = next, !.lastReviewAt = now,
                               !.totalSuccesses = IF q >= 3 THEN @ + 1 ELSE @]]

(* ------------------------------- state -------------------------------- *)
VARIABLES
    cards,             \* object store 'cards': id -> record, for the ids present
    logs,              \* object store 'logs', in key order
    studyQueue,        \* state.studyQueue: references into heap
    currentCardIndex,  \* state.currentCardIndex (0-based)
    isShowingAnswer,   \* state.isShowingAnswer
    heap,              \* the card objects the queue and pending calls refer to
    dbq,               \* per object store, the async calls awaiting a request, oldest first
    hung,              \* the calls whose awaited promise will never settle
    screen,            \* what UI.render last put on the page
    clock,             \* new Date(), in days
    count,             \* how many clicks, days and failed requests there have been
    returnToStudy,     \* state.returnToStudy
    studyDeckFilter,   \* state.studyDeckFilter: a deck id, or 0 for null
    nextKey,           \* the key generator of object store 'cards' (autoIncrement)
    fn                 \* inputs and results of the functions applied on their own

vars == <<cards, logs, studyQueue, currentCardIndex, isShowingAnswer, heap, dbq, hung,
          screen, clock, count, returnToStudy, studyDeckFilter, nextKey, fn>>

\* const log = { cardId, reviewedAt, q, intervalBefore, efBefore } (line 650);
\* intervalAfter and EF are set at line 675
NoLog ==
    [cardId |-> 0, reviewedAt |-> 0, q |-> 0, intervalBefore |-> 0, efBefore |-> 0,
     intervalAfter |-> Undefined, EF |-> Undefined]

NoStats == [failed |-> 0, of |-> 1, total |-> 0]

NoUpd ==
    [eMult |-> 0, rMult |-> 0, sm2 |-> [n |-> 0, I |-> 0, EF |-> 0], efNew |-> 0,
     iNew |-> 0, card |-> NewCard(0)]

\* an async call: which function, where it is suspended, and its locals
\* (pre is the card object as submitReview read it at lines 657-662)
Call(kind, pc) ==
    [kind |-> kind, pc |-> pc, card |-> 0, q |-> 0, cutoffAt |-> 0, log |-> NoLog,
     userStats |-> NoStats, pre |-> NewCard(0), upd |-> NoUpd, key |-> 0,
     deckId |-> 0, allCards |-> <<>>, now |-> 0]

Stores == {"cards", "logs"}

\* the calls that have started and not returned, oldest request first per store
InFlight(q) == q["cards"] \o q["logs"]

\* the call whose request on the store is answered next
Ready(store, kind, pc) ==
    /\ dbq[store] # <<>>
    /\ Head(dbq[store]).kind = kind
    /\ Head(dbq[store]).pc = pc

Enqueue(q, store, call) == [q EXCEPT ![store] = Append(@, call)]
Dequeue(q, store) == [q EXCEPT ![store] = Tail(@)]

Pending(kind) == \E i \in 1 .. Len(InFlight(dbq)) : InFlight(dbq)[i].kind = kind

Blank == [view |-> "dashboard", cardId |-> 0, deckId |-> 0, answer |-> FALSE]

\* App.renderCurrentStudyCard (lines 639-642): what the page shows afterwards
renderCurrentStudyCard(queue, index, showing, h) ==
    IF index >= Len(queue)
    THEN [view |-> "empty", cardId |-> 0, deckId |-> 0, answer |-> FALSE]
    ELSE [view |-> "study", cardId |-> h[queue[index + 1]].id,
          deckId |-> h[queue[index + 1]].deckId, answer |-> showing]

\* objects still referenced by the queue or by a call that has yet to use its card
Live(h, queue, q) ==
    LET calls == InFlight(q)
        refs == {queue[i] : i \in 1 .. Len(queue)}
                \cup {calls[i].card : i \in 1 .. Len(calls)}
    IN  [r \in (DOMAIN h) \cap refs |-> h[r]]

RECURSIVE FreshRefs(_, _, _)
\* k references not in used, counting up from r
FreshRefs(used, k, r) ==
    IF k = 0 THEN <<>>
    ELSE IF r \in used THEN FreshRefs(used, k, r + 1)
    ELSE <<r>> \o FreshRefs(used, k - 1, r + 1)

\* db.put('cards', v): v replaces the record with its key or is added under it
PutCard(store, v) ==
    [id \in (DOMAIN store) \cup {v.id} |-> IF id = v.id THEN v ELSE store[id]]

\* db.del('cards', k)
DelCard(store, k) == [id \in (DOMAIN store) \ {k} |-> store[id]]

RECURSIVE AllCards(_, _)
\* the records getAll('cards') returns, in key order
AllCards(store, id) ==
    IF id > NumCards THEN <<>>
    ELSE (IF id \in DOMAIN store THEN <<store[id]>> ELSE <<>>) \o AllCards(store, id + 1)

\* Array.prototype.splice(index, 1)
Splice(queue, index) ==
    IF index >= Len(queue) THEN queue
    ELSE SubSeq(queue, 1, index) \o SubSeq(queue, index + 2, Len(queue))

(* ----------------------- the database at start ------------------------ *)
\* Reviews of earlier runs of the program, one submitReview at a time: each
\* entry is the card, the grade button and the day.  Card 1 was recalled on
\* two days; card 2 was forgotten three times and then recalled on two days.
\* On StartDay both are due again.
History ==
    << [card |-> 1, uiGrade |-> 3, at |-> 0], [card |-> 2, uiGrade |-> 1, at |-> 0],
       [card |-> 2, uiGrade |-> 1, at |-> 0], [card |-> 2, uiGrade |-> 1, at |-> 0],
       [card |-> 2, uiGrade |-> 2, at |-> 0], [card |-> 1, uiGrade |-> 3, at |-> 1],
       [card |-> 2, uiGrade |-> 2, at |-> 1] >>

\* the day the six-day intervals of the history end
StartDay == History[Len(History)].at + 6

\* the stores once App.saveCard has created the cards (line 605)
Created == [cards |-> [id \in CardIds |-> NewCard(id)], logs |-> <<>>]

\* the stores of a new installation
Installed == [cards |-> [id \in {} |-> NewCard(id)], logs |-> <<>>]

RECURSIVE Replay(_)
\* the stores after the reviews of the history, run to completion in turn
Replay(h) ==
    IF h = <<>> THEN Created
    ELSE
    LET before == Replay(SubSeq(h, 1, Len(h) - 1))
        r == h[Len(h)]
        q == qMap[r.uiGrade]
        card == before.cards[r.card]
        upd == ReviewUpdate(card, q, getUserStats(before.logs, r.at), r.at)
        log == [cardId |-> card.id, reviewedAt |-> r.at, q |-> q,
                intervalBefore |-> card.I, efBefore |-> card.EF,
                intervalAfter |-> upd.iNew, EF |-> upd.efNew]
    IN  [cards |-> PutCard(before.cards, upd.card), logs |-> Append(before.logs, log)]

Databases == {Installed, Created, Replay(History)}

(* ------------------ the functions applied on their own ---------------- *)
NoSM2 == [n |-> 0, I |-> 0, EF |-> 0]

\* state.studyQueue, state.currentCardIndex and state.isShowingAnswer as
\* lines 10-12 set them
NoSession == [studyQueue |-> <<>>, currentCardIndex |-> 0, isShowingAnswer |-> FALSE]

FnIdle ==
    [card |-> NewCard(0), q |-> 0, userStats |-> NoStats, now |-> 0,
     allCards |-> <<>>, allLogs |-> <<>>, filter |-> 0, before |-> NoSession,
     applied |-> "none", sm2 |-> NoSM2, upd |-> NoUpd, due |-> <<>>, stats |-> NoStats,
     cs |-> calculateCardStats(NewCard(0), 0), session |-> NoSession]

FnN == 0 .. 3
FnI == {1, 6, 15}
FnEF == {130, 170, 250, 300}
FnSuccesses == {0, 2, 4, 9}
FnNow == {0, 3, 6, 40}
FnQ == 0 .. 5

\* a card as line 605 creates it, or as reviews leave it: n = 0 and n = 1
\* come with I = 1, n = 2 with I = 6, and a longer run with a longer interval
FnCards ==
    {NewCard(1)} \cup
    { [NewCard(1) EXCEPT !.n = n, !.I = i, !.EF = EFLit(e), !.totalSuccesses = ts,
                         !.lastReviewAt = 0, !.nextReviewAt = i] :
        <<n, i, e, ts>> \in
          { x \in FnN \X FnI \X FnEF \X FnSuccesses :
               /\ x[1] <= 1 => x[2] = 1
               /\ x[1] = 2 => x[2] = 6
               /\ x[1] >= 3 => x[2] >= 6
               /\ x[4] >= x[1] } }

\* what getUserStats returns: no log in the window, or 20 of which some failed
FnStats == {NoStats} \cup {[failed |-> f, of |-> 20, total |-> 20] : f \in {0, 2, 3, 4, 7, 8}}

FnInputs ==
    { [FnIdle EXCEPT !.card = c, !.q = q, !.userStats = st, !.now = now] :
        <<c, q, st, now>> \in FnCards \X FnQ \X FnStats \X FnNow }

\* what db.getAll('cards') returns to getDueCards: up to two cards
FnCollections ==
    {<<>>} \cup {<<c>> : c \in FnCards}
    \cup {<<c, [d EXCEPT !.id = 2]>> : <<c, d>> \in FnCards \X FnCards}

FnDueInputs ==
    { [FnIdle EXCEPT !.allCards = cs, !.now = now] : <<cs, now>> \in FnCollections \X FnNow }

FnLogDays == {0, 10, 25}
FnStatsNow == {40, 41}

\* a log entry as line 650 and line 675 build it, of a lapse or of a recall
FnLogEntries ==
    { [NoLog EXCEPT !.cardId = 1, !.q = q, !.reviewedAt = at, !.intervalAfter = 1,
                    !.EF = EFLit(250)] : <<q, at>> \in {1, 5} \X FnLogDays }

\* the object store 'logs' as getUserStats finds it: up to three entries
FnLogs ==
    {<<>>} \cup {<<a>> : a \in FnLogEntries}
    \cup {<<a, b>> : <<a, b>> \in FnLogEntries \X FnLogEntries}
    \cup {<<a, b, c>> : <<a, b, c>> \in FnLogEntries \X FnLogEntries \X FnLogEntries}

FnLogInputs ==
    { [FnIdle EXCEPT !.allLogs = ls, !.now = now] : <<ls, now>> \in FnLogs \X FnStatsNow }

\* cards of the decks: new ones, and reviewed ones of an average ease
FnDeckCards ==
    { [c EXCEPT !.deckId = d] :
        <<c, d>> \in {c \in FnCards : c.EF = EFLit(250) /\ c.totalSuccesses \in {0, 4}}
                     \X DeckIds }

\* what db.getAll('cards') returns to getDueCards: up to three cards of the decks
FnDeckCollections ==
    {<<>>} \cup {<<c>> : c \in FnDeckCards}
    \cup {<<c, [d EXCEPT !.id = 2]>> : <<c, d>> \in FnDeckCards \X FnDeckCards}
    \cup {<<c, [d EXCEPT !.id = 2], [e EXCEPT !.id = 3]>> :
             <<c, d, e>> \in FnDeckCards \X FnDeckCards \X FnDeckCards}

\* the session before startSession: none yet, or one that was studied to its end
FnSessions ==
    {NoSession,
     [studyQueue |-> <<NewCard(1)>>, currentCardIndex |-> 1, isShowingAnswer |-> FALSE]}

FnSessionInput(cs, now, f, b) ==
    [FnIdle EXCEPT !.allCards = cs, !.now = now, !.filter = f, !.before = b]

AppInit ==
    /\ \E db \in Databases : cards = db.cards /\ logs = db.logs
    /\ studyQueue = <<>>
    /\ currentCardIndex = 0
    /\ isShowingAnswer = FALSE
    /\ heap = [r \in {} |-> NewCard(0)]
    /\ dbq = [store \in Stores |-> <<>>]
    /\ hung = {}
    /\ screen = Blank
    /\ clock = StartDay
    /\ count = 0
    /\ returnToStudy = FALSE
    /\ studyDeckFilter = 0
    /\ nextKey = Cardinality(DOMAIN cards) + 1

Init == AppInit /\ fn = FnIdle

(* --------------------------- the clock -------------------------------- *)
\* Requests to the database are answered within the day: the clock moves
\* only while no call is waiting for one.
Tick(d) ==
    /\ count < MaxEvents
    /\ InFlight(dbq) = <<>>
    /\ clock' = clock + d
    /\ count' = count + 1
    /\ UNCHANGED <<cards, logs, studyQueue, currentCardIndex, isShowingAnswer, heap, dbq,
                   hung, screen, fn,
                   returnToStudy, studyDeckFilter, nextKey>>

(* ------------------- App.navigateTo('dashboard') ---------------------- *)
\* The buttons of the study page and of the session-complete page call
\* navigateTo('dashboard'), which starts UI.renderDashboard (lines 147-151):
\* await getUserStats, then getAll('cards') and getDueCards (getAll('cards'),
\* then getUserStats) among the awaited requests, then the page is rendered.
\* Having asked for the dashboard, the user clicks nothing on the old page.
navigateTo ==
    /\ screen.view \in {"study", "empty", "deckList"}
    /\ ~Pending("dash")
    /\ count < MaxEvents
    /\ Len(InFlight(dbq)) < MaxInFlight
    /\ returnToStudy' = FALSE
    /\ dbq' = Enqueue(dbq, "logs", Call("dash", "stats"))
    /\ count' = count + 1
    /\ UNCHANGED <<cards, logs, studyQueue, currentCardIndex, isShowingAnswer, heap,
                   hung, screen, clock, fn, studyDeckFilter, nextKey>>

renderDashboardStats ==
    /\ Ready("logs", "dash", "stats")
    /\ dbq' = Enqueue(Dequeue(dbq, "logs"), "cards", Call("dash", "cards"))
    /\ UNCHANGED <<cards, logs, studyQueue, currentCardIndex, isShowingAnswer, heap,
                   hung, screen, clock, count, fn,
                   returnToStudy, studyDeckFilter, nextKey>>

renderDashboardCards ==
    /\ Ready("cards", "dash", "cards")
    /\ dbq' = Enqueue(Dequeue(dbq, "cards"), "logs", Call("dash", "due"))
    /\ UNCHANGED <<cards, logs, studyQueue, currentCardIndex, isShowingAnswer, heap,
                   hung, screen, clock, count, fn,
                   returnToStudy, studyDeckFilter, nextKey>>

renderDashboard ==
    /\ Ready("logs", "dash", "due")
    /\ dbq' = Dequeue(dbq, "logs")
    /\ screen' = Blank
    /\ UNCHANGED <<cards, logs, studyQueue, currentCardIndex, isShowingAnswer, heap,
                   hung, clock, count, fn,
                   returnToStudy, studyDeckFilter, nextKey>>

(* ------------------------- App.startSession --------------------------- *)
\* click on the start button of the dashboard: getDueCards awaits getAll('cards')
startSession ==
    /\ screen.view = "dashboard"
    /\ count < MaxEvents
    /\ ~Pending("start")
    /\ Len(InFlight(dbq)) < MaxInFlight
    /\ dbq' = Enqueue(dbq, "cards", Call("start", "cards"))
    /\ count' = count + 1
    /\ UNCHANGED <<cards, logs, studyQueue, currentCardIndex, isShowingAnswer, heap,
                   hung, screen, clock, fn,
                   returnToStudy, studyDeckFilter, nextKey>>

\* getAll('cards') resolves; now = new Date(); getUserStats is awaited (lines 115-117)
getDueCardsAll ==
    /\ Ready("cards", "start", "cards")
    /\ dbq' = Enqueue(Dequeue(dbq, "cards"), "logs",
                      [Call("start", "stats") EXCEPT !.allCards = AllCards(cards, 1),
                                                     !.now = clock])
    /\ UNCHANGED <<cards, logs, studyQueue, currentCardIndex, isShowingAnswer, heap,
                   hung, screen, clock, count, fn,
                   returnToStudy, studyDeckFilter, nextKey>>

\* getUserStats resolves, getDueCards returns an empty list: alert and return (line 627)
startSessionNone ==
    /\ Ready("logs", "start", "stats")
    /\ getDueCards(Head(dbq["logs"]).allCards, Head(dbq["logs"]).now) = <<>>
    /\ dbq' = Dequeue(dbq, "logs")
    /\ UNCHANGED <<cards, logs, studyQueue, currentCardIndex, isShowingAnswer, heap,
                   hung, screen, clock, count, fn,
                   returnToStudy, studyDeckFilter, nextKey>>

\* as DeckOrder, with the cards of the other decks left out of the session
DeckOrder_SelectedOnly(due, filter) ==
    IF filter = 0 THEN due
    ELSE SelectSeq(due, LAMBDA c : c.deckId = filter)

\* lines 629-634: with a deck filter set, the cards of that deck come first
DeckOrder(due, filter) ==
    IF filter = 0 THEN due
    ELSE SelectSeq(due, LAMBDA c : c.deckId = filter)
         \o SelectSeq(due, LAMBDA c : c.deckId # filter)

\* getUserStats resolves, the due cards become the queue (lines 628-636)
startSessionQueue ==
    /\ Ready("logs", "start", "stats")
    /\ LET due == DeckOrder(getDueCards(Head(dbq["logs"]).allCards, Head(dbq["logs"]).now),
                            studyDeckFilter)
           q == Dequeue(dbq, "logs")
           kept == Live(heap, <<>>, q)
           refs == FreshRefs(DOMAIN kept, Len(due), 1)
           h == [r \in (DOMAIN kept) \cup {refs[i] : i \in 1 .. Len(due)} |->
                   IF r \in DOMAIN kept THEN kept[r]
                   ELSE due[CHOOSE i \in 1 .. Len(due) : refs[i] = r]]
       IN  /\ due # <<>>
           /\ dbq' = q
           /\ heap' = h
           /\ studyQueue' = refs
           /\ currentCardIndex' = 0
           /\ isShowingAnswer' = FALSE
           /\ screen' = renderCurrentStudyCard(refs, 0, FALSE, h)
    /\ UNCHANGED <<cards, logs, hung, clock, count, fn,
                   returnToStudy, studyDeckFilter, nextKey>>

(* --------------------------- App.flipCard ----------------------------- *)
flipCard ==
    /\ screen.view = "study"
    /\ ~Pending("dash")
    /\ ~isShowingAnswer
    /\ isShowingAnswer' = TRUE
    /\ screen' = renderCurrentStudyCard(studyQueue, currentCardIndex, TRUE, heap)
    /\ UNCHANGED <<cards, logs, studyQueue, currentCardIndex, heap, dbq, hung, clock,
                   count, fn,
                   returnToStudy, studyDeckFilter, nextKey>>

(* ------------------------- App.submitReview --------------------------- *)
\* click on a grade button (lines 647-652): the card at the current index,
\* the log object, and the index request of getUserStats with its cutoff
submitReview(uiGrade) ==
    /\ screen.view = "study" /\ screen.answer
    /\ ~Pending("dash")
    /\ count < MaxEvents
    /\ Len(InFlight(dbq)) < MaxInFlight
    /\ currentCardIndex < Len(studyQueue)
    /\ LET q == qMap[uiGrade]
           ref == studyQueue[currentCardIndex + 1]
           card == heap[ref]
           log == [NoLog EXCEPT !.cardId = card.id, !.reviewedAt = clock, !.q = q,
                                !.intervalBefore = card.I, !.efBefore = card.EF]
       IN  dbq' = Enqueue(dbq, "logs",
                          [Call("submit", "stats") EXCEPT !.card = ref, !.q = q,
                                                          !.log = log, !.cutoffAt = clock])
    /\ count' = count + 1
    /\ UNCHANGED <<cards, logs, studyQueue, currentCardIndex, isShowingAnswer, heap,
                   hung, screen, clock, fn,
                   returnToStudy, studyDeckFilter, nextKey>>

\* getUserStats resolves (line 652); lines 653-674 run: the card object is
\* assigned and handed to db.put, which copies it
submitReviewStats ==
    /\ Ready("logs", "submit", "stats")
    /\ LET call == Head(dbq["logs"])
           userStats == getUserStats(logs, call.cutoffAt)
           card == heap[call.card]
           upd == ReviewUpdate(card, call.q, userStats, clock)
           q == Enqueue(Dequeue(dbq, "logs"), "cards",
                        [call EXCEPT !.pc = "put", !.userStats = userStats, !.pre = card,
                                     !.upd = upd, !.card = 0])
       IN  /\ dbq' = q
           /\ heap' = Live([heap EXCEPT ![call.card] = upd.card], studyQueue, q)
    /\ UNCHANGED <<cards, logs, studyQueue, currentCardIndex, isShowingAnswer, hung,
                   screen, clock, count, fn,
                   returnToStudy, studyDeckFilter, nextKey>>

\* as submitReviewPut, with the update written under the id of the card that
\* is at the current index when db.put is called
submitReviewPut_Reread ==
    /\ Ready("cards", "submit", "put")
    /\ LET call == Head(dbq["cards"])
       IN  /\ cards' = PutCard(cards,
                               IF currentCardIndex < Len(studyQueue)
                               THEN [call.upd.card EXCEPT
                                       !.id = heap[studyQueue[currentCardIndex + 1]].id]
                               ELSE call.upd.card)
           /\ dbq' = Enqueue(Dequeue(dbq, "cards"), "logs",
                             [call EXCEPT !.pc = "add",
                                          !.log = [@ EXCEPT !.intervalAfter = call.upd.iNew,
                                                            !.EF = call.upd.efNew]])
    /\ UNCHANGED <<logs, studyQueue, currentCardIndex, isShowingAnswer, heap, hung,
                   screen, clock, count, fn,
                   returnToStudy, studyDeckFilter, nextKey>>

\* db.put succeeds (line 674); lines 675-676 run
submitReviewPut ==
    /\ Ready("cards", "submit", "put")
    /\ LET call == Head(dbq["cards"])
       IN  /\ cards' = PutCard(cards, call.upd.card)
           /\ dbq' = Enqueue(Dequeue(dbq, "cards"), "logs",
                             [call EXCEPT !.pc = "add",
                                          !.log = [@ EXCEPT !.intervalAfter = call.upd.iNew,
                                                            !.EF = call.upd.efNew]])
    /\ UNCHANGED <<logs, studyQueue, currentCardIndex, isShowingAnswer, heap, hung,
                   screen, clock, count, fn,
                   returnToStudy, studyDeckFilter, nextKey>>

\* as submitReviewAdd, with the entry stored under the key of the last one
submitReviewAdd_Replace ==
    /\ Ready("logs", "submit", "add")
    /\ logs' = IF logs = <<>> THEN <<Head(dbq["logs"]).log>>
                ELSE [logs EXCEPT ![Len(logs)] = Head(dbq["logs"]).log]
    /\ currentCardIndex' = currentCardIndex + 1
    /\ isShowingAnswer' = FALSE
    /\ screen' = renderCurrentStudyCard(studyQueue, currentCardIndex + 1, FALSE, heap)
    /\ dbq' = Dequeue(dbq, "logs")
    /\ UNCHANGED <<cards, studyQueue, heap, hung, clock, count, fn,
                   returnToStudy, studyDeckFilter, nextKey>>

\* db.add succeeds (line 676); lines 678-679 run
submitReviewAdd ==
    /\ Ready("logs", "submit", "add")
    /\ logs' = Append(logs, Head(dbq["logs"]).log)
    /\ currentCardIndex' = currentCardIndex + 1
    /\ isShowingAnswer' = FALSE
    /\ screen' = renderCurrentStudyCard(studyQueue, currentCardIndex + 1, FALSE, heap)
    /\ dbq' = Dequeue(dbq, "logs")
    /\ UNCHANGED <<cards, studyQueue, heap, hung, clock, count, fn,
                   returnToStudy, studyDeckFilter, nextKey>>

\* The request of db.put fails.  db.put and db.add set no onerror handler
\* (lines 50-51): their promise never settles and the call stays suspended
\* at its await for ever.
submitReviewPutFails ==
    /\ count < MaxEvents
    /\ Ready("cards", "submit", "put")
    /\ hung' = hung \cup {Head(dbq["cards"])}
    /\ dbq' = Dequeue(dbq, "cards")
    /\ count' = count + 1
    /\ UNCHANGED <<cards, logs, studyQueue, currentCardIndex, isShowingAnswer, heap,
                   screen, clock, fn,
                   returnToStudy, studyDeckFilter, nextKey>>

\* the request of db.add fails, likewise
submitReviewAddFails ==
    /\ count < MaxEvents
    /\ Ready("logs", "submit", "add")
    /\ hung' = hung \cup {Head(dbq["logs"])}
    /\ dbq' = Dequeue(dbq, "logs")
    /\ count' = count + 1
    /\ UNCHANGED <<cards, logs, studyQueue, currentCardIndex, isShowingAnswer, heap,
                   screen, clock, fn,
                   returnToStudy, studyDeckFilter, nextKey>>

(* ---------------------- App.deleteCardFromStudy ----------------------- *)
\* click on the delete button of the shown card, confirmed (lines 617-618)
deleteCardFromStudy ==
    /\ screen.view = "study" /\ screen.answer
    /\ ~Pending("dash")
    /\ count < MaxEvents
    /\ Len(InFlight(dbq)) < MaxInFlight
    /\ dbq' = Enqueue(dbq, "cards", [Call("delete", "del") EXCEPT !.key = screen.cardId])
    /\ count' = count + 1
    /\ UNCHANGED <<cards, logs, studyQueue, currentCardIndex, isShowingAnswer, heap,
                   hung, screen, clock, fn,
                   returnToStudy, studyDeckFilter, nextKey>>

\* db.del resolves (lines 619-621)
deleteCardFromStudyDone ==
    /\ Ready("cards", "delete", "del")
    /\ cards' = DelCard(cards, Head(dbq["cards"]).key)
    /\ LET queue == Splice(studyQueue, currentCardIndex)
           q == Dequeue(dbq, "cards")
           h == Live(heap, queue, q)
       IN  /\ studyQueue' = queue
           /\ dbq' = q
           /\ heap' = h
           /\ IF Len(queue) = 0 \/ currentCardIndex >= Len(queue)
              THEN /\ screen' = [view |-> "empty", cardId |-> 0, deckId |-> 0, answer |-> FALSE]
                   /\ UNCHANGED isShowingAnswer
              ELSE /\ isShowingAnswer' = FALSE
                   /\ screen' = renderCurrentStudyCard(queue, currentCardIndex, FALSE, h)
    /\ UNCHANGED <<logs, currentCardIndex, hung, clock, count, fn,
                   returnToStudy, studyDeckFilter, nextKey>>

(* ------------------------- the deck filter ---------------------------- *)
\* the select of the dashboard is changed (line 477, line 183)
setDeckFilter(val) ==
    /\ screen.view = "dashboard"
    /\ count < MaxEvents
    /\ val # studyDeckFilter
    /\ studyDeckFilter' = val
    /\ count' = count + 1
    /\ UNCHANGED <<cards, logs, studyQueue, currentCardIndex, isShowingAnswer, heap, dbq,
                   hung, screen, clock, fn, returnToStudy, nextKey>>

(* ------------------------- cards and the form ------------------------- *)
\* The deck list and the card list of a deck read the stores and write
\* nothing; their requests are left out and the page is there at once.
Page(view, cardId, deckId) ==
    [view |-> view, cardId |-> cardId, deckId |-> deckId, answer |-> FALSE]

\* App.navigateTo('deckList'), from the dashboard or from a card list
navigateToDeckList ==
    /\ screen.view \in {"dashboard", "manager"}
    /\ count < MaxEvents
    /\ returnToStudy' = FALSE
    /\ screen' = Page("deckList", 0, 0)
    /\ count' = count + 1
    /\ UNCHANGED <<cards, logs, studyQueue, currentCardIndex, isShowingAnswer, heap, dbq,
                   hung, clock, fn, studyDeckFilter, nextKey>>

\* App.manageCards(deckId) (line 570)
manageCards(deckId) ==
    /\ screen.view = "deckList"
    /\ count < MaxEvents
    /\ screen' = Page("manager", 0, deckId)
    /\ count' = count + 1
    /\ UNCHANGED <<cards, logs, studyQueue, currentCardIndex, isShowingAnswer, heap, dbq,
                   hung, clock, fn, returnToStudy, studyDeckFilter, nextKey>>

\* App.createCard(deckId) (line 571): the form of a new card, from the deck
\* list (line 209) or from the card list of the deck (line 257)
createCard(deckId) ==
    /\ \/ screen.view = "deckList"
       \/ screen.view = "manager" /\ screen.deckId = deckId
    /\ count < MaxEvents
    /\ screen' = Page("form", 0, deckId)
    /\ count' = count + 1
    /\ UNCHANGED <<cards, logs, studyQueue, currentCardIndex, isShowingAnswer, heap, dbq,
                   hung, clock, fn, returnToStudy, studyDeckFilter, nextKey>>

\* click on the edit button of the shown card (line 614, up to the await)
editCardFromStudy ==
    /\ screen.view = "study" /\ screen.answer
    /\ ~Pending("dash")
    /\ count < MaxEvents
    /\ Len(InFlight(dbq)) < MaxInFlight
    /\ returnToStudy' = TRUE
    /\ dbq' = Enqueue(dbq, "cards", [Call("edit", "get") EXCEPT !.key = screen.cardId,
                                                                 !.deckId = screen.deckId])
    /\ count' = count + 1
    /\ UNCHANGED <<cards, logs, studyQueue, currentCardIndex, isShowingAnswer, heap,
                   hung, screen, clock, fn, studyDeckFilter, nextKey>>

\* click on the edit button of a card in the card list of its deck (line 572,
\* up to the await)
editCard(id) ==
    /\ screen.view = "manager"
    /\ id \in DOMAIN cards /\ cards[id].deckId = screen.deckId
    /\ count < MaxEvents
    /\ Len(InFlight(dbq)) < MaxInFlight
    /\ returnToStudy' = FALSE
    /\ dbq' = Enqueue(dbq, "cards", [Call("edit", "get") EXCEPT !.key = id,
                                                                 !.deckId = screen.deckId])
    /\ count' = count + 1
    /\ UNCHANGED <<cards, logs, studyQueue, currentCardIndex, isShowingAnswer, heap,
                   hung, screen, clock, fn, studyDeckFilter, nextKey>>

\* db.get resolves: UI.renderCardForm(deckId, card), the form of a new card
\* when the card is gone (line 409)
renderCardForm ==
    /\ Ready("cards", "edit", "get")
    /\ LET call == Head(dbq["cards"])
       IN  screen' = Page("form", IF call.key \in DOMAIN cards THEN call.key ELSE 0,
                          call.deckId)
    /\ dbq' = Dequeue(dbq, "cards")
    /\ UNCHANGED <<cards, logs, studyQueue, currentCardIndex, isShowingAnswer, heap,
                   hung, clock, count, fn, returnToStudy, studyDeckFilter, nextKey>>

\* the cancel button of the form (line 452): App.returnToStudy (line 615)
\* or App.manageCards
cancelCardForm ==
    /\ screen.view = "form"
    /\ count < MaxEvents
    /\ IF returnToStudy
       THEN /\ returnToStudy' = FALSE
            /\ screen' = renderCurrentStudyCard(studyQueue, currentCardIndex,
                                                isShowingAnswer, heap)
       ELSE /\ returnToStudy' = returnToStudy
            /\ screen' = Page("manager", 0, screen.deckId)
    /\ count' = count + 1
    /\ UNCHANGED <<cards, logs, studyQueue, currentCardIndex, isShowingAnswer, heap, dbq,
                   hung, clock, fn, studyDeckFilter, nextKey>>

\* how many calls of saveCard are on their way to db.add
Adding == Len(SelectSeq(InFlight(dbq), LAMBDA c : c.kind = "save" /\ c.pc \in {"dup", "add"}))

\* the form is submitted (lines 576-599, up to the first await): for a new
\* card with a text the cards of the deck are read for the duplicate check,
\* for an existing card the record is read.  The store holds NumCards cards
\* at most.
saveCard ==
    /\ screen.view = "form"
    /\ count < MaxEvents
    /\ Len(InFlight(dbq)) < MaxInFlight
    /\ screen.cardId = 0 => nextKey + Adding <= NumCards
    /\ dbq' = Enqueue(dbq, "cards",
                      [Call("save", IF screen.cardId = 0 THEN "dup" ELSE "get")
                         EXCEPT !.key = screen.cardId, !.deckId = screen.deckId])
    /\ count' = count + 1
    /\ UNCHANGED <<cards, logs, studyQueue, currentCardIndex, isShowingAnswer, heap,
                   hung, screen, clock, fn, returnToStudy, studyDeckFilter, nextKey>>

\* lines 602-603 and 608-609, after the record was written
AfterSave(call, ex, h) ==
    /\ heap' = h
    /\ IF returnToStudy
       THEN /\ returnToStudy' = FALSE
            /\ screen' = renderCurrentStudyCard(studyQueue, currentCardIndex,
                                                isShowingAnswer, h)
       ELSE /\ returnToStudy' = returnToStudy
            /\ screen' = Page("manager", 0, call.deckId)

\* db.get resolves (line 599): Object.assign(ex, cardData), then db.put is
\* awaited.  When the card is gone Object.assign throws and the call ends.
saveCardGet ==
    /\ Ready("cards", "save", "get")
    /\ LET call == Head(dbq["cards"])
       IN  dbq' = IF call.key \in DOMAIN cards
                  THEN Enqueue(Dequeue(dbq, "cards"), "cards",
                               [call EXCEPT !.pc = "put",
                                            !.pre = [cards[call.key] EXCEPT
                                                       !.deckId = call.deckId]])
                  ELSE Dequeue(dbq, "cards")
    /\ UNCHANGED <<cards, logs, studyQueue, currentCardIndex, isShowingAnswer, heap,
                   hung, screen, clock, count, fn, returnToStudy, studyDeckFilter,
                   nextKey>>

\* db.put resolves (line 601); lines 602-603 copy the record onto the queue
\* object of the current card, which keeps the fields getDueCards added
saveCardPut ==
    /\ Ready("cards", "save", "put")
    /\ LET call == Head(dbq["cards"])
           ex == call.pre
           current == IF currentCardIndex < Len(studyQueue)
                      THEN studyQueue[currentCardIndex + 1] ELSE 0
           h == IF returnToStudy /\ current # 0 /\ heap[current].id = call.key
                THEN [heap EXCEPT ![current] =
                         [ex EXCEPT !.priorityScore = heap[current].priorityScore]]
                ELSE heap
       IN  /\ cards' = PutCard(cards, ex)
           /\ AfterSave(call, ex, h)
    /\ dbq' = Dequeue(dbq, "cards")
    /\ UNCHANGED <<logs, studyQueue, currentCardIndex, isShowingAnswer, hung, clock,
                   count, fn, studyDeckFilter, nextKey>>

\* db.getCardsByDeck resolves (line 584); the card is created all the same
\* (no duplicate, or the user confirms) and db.add is awaited (lines 605-606)
saveCardDup ==
    /\ Ready("cards", "save", "dup")
    /\ dbq' = Enqueue(Dequeue(dbq, "cards"), "cards",
                      [Head(dbq["cards"]) EXCEPT !.pc = "add"])
    /\ UNCHANGED <<cards, logs, studyQueue, currentCardIndex, isShowingAnswer, heap,
                   hung, screen, clock, count, fn, returnToStudy, studyDeckFilter,
                   nextKey>>

\* db.add resolves (line 606): the record gets the next key of the store
saveCardAdd ==
    /\ Ready("cards", "save", "add")
    /\ LET call == Head(dbq["cards"])
       IN  /\ cards' = PutCard(cards, [NewCard(nextKey) EXCEPT !.deckId = call.deckId])
           /\ AfterSave(call, NewCard(nextKey), heap)
    /\ nextKey' = nextKey + 1
    /\ dbq' = Dequeue(dbq, "cards")
    /\ UNCHANGED <<logs, studyQueue, currentCardIndex, isShowingAnswer, hung, clock,
                   count, fn, studyDeckFilter>>

(* ---------------- calculateSM2 and the review, applied --------------- *)
ApplyCalculateSM2 ==
    /\ fn.applied = "none"
    /\ fn.card.id # 0
    /\ fn' = [fn EXCEPT !.applied = "calculateSM2", !.sm2 = calculateSM2(fn.card, fn.q)]
    /\ UNCHANGED <<cards, logs, studyQueue, currentCardIndex, isShowingAnswer, heap, dbq,
                   hung, screen, clock, count,
                   returnToStudy, studyDeckFilter, nextKey>>

\* Logic.calculateCardStats on a card (lines 99-112)
ApplyCalculateCardStats ==
    /\ fn.applied = "none"
    /\ fn.card.id # 0
    /\ fn' = [fn EXCEPT !.applied = "calculateCardStats",
                        !.cs = calculateCardStats(fn.card, fn.now)]
    /\ UNCHANGED <<cards, logs, studyQueue, currentCardIndex, isShowingAnswer, heap, dbq,
                   hung, screen, clock, count,
                   returnToStudy, studyDeckFilter, nextKey>>

\* lines 653-672 of submitReview, which gets q from qMap
ApplySubmitReview ==
    /\ fn.applied = "none"
    /\ fn.card.id # 0
    /\ \E g \in DOMAIN qMap : qMap[g] = fn.q
    /\ LET upd == ReviewUpdate(fn.card, fn.q, fn.userStats, fn.now)
       IN  fn' = [fn EXCEPT !.applied = "submitReview", !.sm2 = upd.sm2, !.upd = upd]
    /\ UNCHANGED <<cards, logs, studyQueue, currentCardIndex, isShowingAnswer, heap, dbq,
                   hung, screen, clock, count,
                   returnToStudy, studyDeckFilter, nextKey>>

\* Logic.getDueCards on what getAll returned (lines 116-121)
ApplyGetDueCards ==
    /\ fn.applied = "none"
    /\ fn.card.id = 0 /\ fn.allLogs = <<>>
    /\ fn' = [fn EXCEPT !.applied = "getDueCards", !.due = getDueCards(fn.allCards, fn.now)]
    /\ UNCHANGED <<cards, logs, studyQueue, currentCardIndex, isShowingAnswer, heap, dbq,
                   hung, screen, clock, count,
                   returnToStudy, studyDeckFilter, nextKey>>

\* lines 626-635 of App.startSession on what getDueCards returned
startSessionState(state, due, filter) ==
    IF due = <<>> THEN state
    ELSE [studyQueue |-> DeckOrder(due, filter), currentCardIndex |-> 0,
          isShowingAnswer |-> FALSE]

\* App.startSession on what getAll returned, with the deck filter of
\* App.setDeckFilter (lines 625-636)
ApplyStartSession ==
    /\ fn.applied = "none"
    /\ fn.card.id = 0 /\ fn.allLogs = <<>>
    /\ fn' = [fn EXCEPT !.applied = "startSession",
                        !.due = getDueCards(fn.allCards, fn.now),
                        !.session = startSessionState(fn.before,
                                                      getDueCards(fn.allCards, fn.now),
                                                      fn.filter)]
    /\ UNCHANGED <<cards, logs, studyQueue, currentCardIndex, isShowingAnswer, heap, dbq,
                   hung, screen, clock, count,
                   returnToStudy, studyDeckFilter, nextKey>>

\* Logic.getUserStats on the log store (lines 82-97)
ApplyGetUserStats ==
    /\ fn.applied = "none"
    /\ fn.card.id = 0 /\ fn.allCards = <<>>
    /\ fn' = [fn EXCEPT !.applied = "getUserStats", !.stats = getUserStats(fn.allLogs, fn.now)]
    /\ UNCHANGED <<cards, logs, studyQueue, currentCardIndex, isShowingAnswer, heap, dbq,
                   hung, screen, clock, count,
                   returnToStudy, studyDeckFilter, nextKey>>

(* --------------------------- specification ---------------------------- *)
Next ==
    \/ \E d \in DaySteps : Tick(d)
    \/ navigateTo
    \/ renderDashboardStats
    \/ renderDashboardCards
    \/ renderDashboard
    \/ startSession
    \/ getDueCardsAll
    \/ startSessionNone
    \/ startSessionQueue
    \/ flipCard
    \/ \E g \in 1 .. 4 : submitReview(g)
    \/ submitReviewStats
    \/ submitReviewPut
    \/ submitReviewAdd
    \/ submitReviewPutFails
    \/ submitReviewAddFails
    \/ deleteCardFromStudy
    \/ deleteCardFromStudyDone

Spec == Init /\ [][Next]_vars

\* the steps of the deck filter, the card lists and the card form
CardNext ==
    \/ \E val \in 0 .. NumDecks : setDeckFilter(val)
    \/ navigateToDeckList
    \/ \E deckId \in DeckIds : manageCards(deckId)
    \/ \E deckId \in DeckIds : createCard(deckId)
    \/ editCardFromStudy
    \/ \E id \in CardIds : editCard(id)
    \/ renderCardForm
    \/ cancelCardForm
    \/ saveCard
    \/ saveCardGet
    \/ saveCardPut
    \/ saveCardDup
    \/ saveCardAdd

\* the program with the study session and the card form
CardSpec == Init /\ [][Next \/ CardNext]_vars

FnInit ==
    /\ AppInit
    /\ cards = Installed.cards
    /\ \/ fn \in FnInputs \cup FnDueInputs \cup FnLogInputs
       \/ \E cs \in FnDeckCollections, now \in FnNow, f \in 0 .. NumDecks, b \in FnSessions :
             fn = FnSessionInput(cs, now, f, b)

FnNext ==
    \/ ApplyCalculateSM2
    \/ ApplyCalculateCardStats
    \/ ApplySubmitReview
    \/ ApplyGetDueCards
    \/ ApplyStartSession
    \/ ApplyGetUserStats

FnSpec == FnInit /\ [][FnNext]_vars

(* ============================ properties ============================== *)
\* the calls of submitReview that have computed the update (lines 653-672),
\* suspended at db.put or db.add or left there for ever
Computed ==
    {c \in {InFlight(dbq)[i] : i \in 1 .. Len(InFlight(dbq))} \cup hung :
        c.kind = "submit" /\ c.pc \in {"put", "add"}}

\* C1: every card in the card store has an ease factor of at least 1.3,
\* whatever grades were given and whatever the forgetting rate was.
C1_EaseFactorFloor == \A id \in DOMAIN cards : cards[id].EF >= EFLit(130)

\* a review of this run, a lapse under a forgetting rate above 0.35, has
\* been written to the store and left the card at the floor
C1_Witness ==
    \E c \in Computed :
        /\ c.pc = "add" /\ c.q = 1 /\ c.upd.eMult = 9
        /\ c.pre.id \in DOMAIN cards
        /\ cards[c.pre.id] = c.upd.card
        /\ cards[c.pre.id].EF = EFLit(130)

\* C2: a review with q < 3 resets the card: calculateSM2 returns n' = 0 and
\* I' = 1 and submitReview hands db.put a card with n = 0 and I = 1, for any
\* prior n, I and EF and any multipliers.
C2_LapseReset ==
    /\ fn.applied \in {"calculateSM2", "submitReview"} /\ fn.q < 3 => fn.sm2.n = 0 /\ fn.sm2.I = 1
    /\ fn.applied = "submitReview" /\ fn.q < 3 => fn.upd.card.n = 0 /\ fn.upd.card.I = 1

\* a card on a run of three with a 15-day interval is forgotten while the
\* ease multiplier is 1.1
C2_Witness ==
    /\ fn.applied = "submitReview" /\ fn.q = 1
    /\ fn.card.n = 3 /\ fn.card.I = 15 /\ fn.upd.eMult = 11
    /\ fn.sm2.n = 0 /\ fn.sm2.I = 1
    /\ fn.upd.card.n = 0 /\ fn.upd.card.I = 1

\* C3: with q >= 3 a card with prior n = 0 gets interval 1 and a card with
\* prior n = 1 gets interval 6, from calculateSM2 and in the card submitReview
\* hands to db.put, whatever the prior I and EF and the multipliers are.
C3_FixedFirstSteps ==
    /\ fn.applied \in {"calculateSM2", "submitReview"} /\ fn.q >= 3 /\ fn.card.n = 0 => fn.sm2.I = 1
    /\ fn.applied \in {"calculateSM2", "submitReview"} /\ fn.q >= 3 /\ fn.card.n = 1 => fn.sm2.I = 6
    /\ fn.applied = "submitReview" /\ fn.q >= 3 /\ fn.card.n = 0
          => fn.upd.iNew = 1 /\ fn.upd.card.I = 1
    /\ fn.applied = "submitReview" /\ fn.q >= 3 /\ fn.card.n = 1
          => fn.upd.iNew = 6 /\ fn.upd.card.I = 6

\* the second recall of a card, with both multipliers below 1
C3_Witness ==
    /\ fn.applied = "submitReview" /\ fn.q >= 3 /\ fn.card.n = 1
    /\ fn.upd.eMult = 9 /\ fn.upd.rMult = 8
    /\ fn.sm2.I = 6 /\ fn.upd.card.I = 6

\* C4: a card of the store that has been reviewed has an interval of at
\* least one day.
C4_IntervalPositive ==
    \A id \in DOMAIN cards : cards[id].lastReviewAt # NoTime => cards[id].I >= 1

\* the third recall in a row has been written: the interval is
\* round(6 * 1.3 * 0.8), with the ease factor at its floor and the
\* retention multiplier 0.8
C4_Witness ==
    \E c \in Computed :
        /\ c.pc = "add" /\ c.q >= 3 /\ c.upd.sm2.n > 2
        /\ c.upd.efNew = EFLit(130) /\ c.upd.rMult = 8
        /\ c.pre.id \in DOMAIN cards
        /\ cards[c.pre.id] = c.upd.card
        /\ cards[c.pre.id].I = 6

\* the log entries of a card, oldest first
ReviewsOf(id) == SelectSeq(logs, LAMBDA l : l.cardId = id)

RECURSIVE TrailingSuccesses(_)
\* how many reviews with q >= 3 end the sequence
TrailingSuccesses(reviews) ==
    IF reviews = <<>> THEN 0
    ELSE IF reviews[Len(reviews)].q < 3 THEN 0
    ELSE 1 + TrailingSuccesses(SubSeq(reviews, 1, Len(reviews) - 1))

C6_OneInFlightPerCard ==
    \A i, j \in 1 .. Len(InFlight(dbq)) :
        i < j /\ InFlight(dbq)[i].kind = "submit" /\ InFlight(dbq)[j].kind = "submit"
        => InFlight(dbq)[i].log.cardId # InFlight(dbq)[j].log.cardId

\* C7: when a request of a submitReview call is answered and the card of the
\* call is not in the card store, neither store changes.
C7_VanishedCardSkipped ==
    [][\A store \in Stores :
          /\ dbq[store] # <<>>
          /\ Head(dbq[store]).kind = "submit"
          /\ Head(dbq[store]).log.cardId \notin DOMAIN cards
          /\ dbq'[store] = Tail(dbq[store])
          => cards' = cards /\ logs' = logs]_vars

\* the scheduling fields of a card object
Scheduling(card) ==
    [n |-> card.n, I |-> card.I, EF |-> card.EF, nextReviewAt |-> card.nextReviewAt,
     lastReviewAt |-> card.lastReviewAt, totalSuccesses |-> card.totalSuccesses]

\* C8: after a failed db.put or db.add of a submitReview call, the card
\* object of the queue has the n, I, EF, nextReviewAt, lastReviewAt and
\* totalSuccesses it had when the call read them.
C8_UnchangedOnFailure ==
    \A c \in hung :
        \A i \in 1 .. Len(studyQueue) :
            heap[studyQueue[i]].id = c.pre.id
            => Scheduling(heap[studyQueue[i]]) = Scheduling(c.pre)

\* C9: a review computed with no log entry in the trailing 30 days hands
\* db.put the EF that calculateSM2 returned.
C9_NoCorrectionWithoutLogs ==
    \A c \in Computed : c.userStats.total = 0 => c.upd.card.EF = c.upd.sm2.EF

\* the calls that reviewed a card as saveCard created it with button 3
FirstReviews ==
    {c \in Computed : c.pre.n = 0 /\ c.pre.I = 0 /\ c.pre.EF = EFLit(250) /\ c.q = qMap[3]}

\* C10 as stated: calculateSM2 yields {n: 1, I: 1, EF: 2.6}, the interval is 1
\* and nextReviewAt is the day after the review.
C10_FirstReviewAsStated ==
    \A c \in FirstReviews :
        /\ c.upd.sm2 = [n |-> 1, I |-> 1, EF |-> EFLit(260)]
        /\ c.upd.card.I = 1
        /\ c.upd.card.nextReviewAt = c.upd.card.lastReviewAt + 1

\* C10: for a card {n: 0, I: 0, EF: 2.5} reviewed with button 3 (q = 4),
\* calculateSM2 yields {n: 1, I: 1, EF: 2.5}, the interval handed to db.put
\* is 1 and nextReviewAt is the day after the review.
C10_FirstReview ==
    \A c \in FirstReviews :
        /\ c.q = 4
        /\ c.upd.sm2 = [n |-> 1, I |-> 1, EF |-> EFLit(250)]
        /\ c.upd.card.I = 1
        /\ c.upd.card.nextReviewAt = c.upd.card.lastReviewAt + 1

\* such a first review has been written to the card store
C10_Witness ==
    \E c \in FirstReviews :
        /\ c.pc = "add"
        /\ c.pre.id \in DOMAIN cards
        /\ cards[c.pre.id] = c.upd.card
        /\ cards[c.pre.id].I = 1
        /\ cards[c.pre.id].nextReviewAt = clock + 1

\* C11: a card {n: 2, I: 6, EF: 2.5} reviewed with button 4 (q = 5) under a
\* forgetting rate of 0.4 and a retentionScore above 80 is handed to db.put
\* with n = 3, EF = 2.34 and I = 17, while calculateSM2 returned I = 15 and
\* EF = 2.6.
C11_CorrectedInterval ==
    /\ fn.applied = "submitReview"
    /\ fn.card.n = 2 /\ fn.card.I = 6 /\ fn.card.EF = EFLit(250)
    /\ fn.q = qMap[4]
    /\ fn.userStats.failed * 10 = 4 * fn.userStats.of
    /\ calculateCardStats(fn.card, fn.now).retentionScore > 80 * ScoreUnit
    => /\ fn.q = 5
       /\ fn.upd.card.n = 3
       /\ fn.upd.card.EF = EFLit(234)
       /\ fn.upd.card.I = 17
       /\ fn.sm2.I = 15
       /\ fn.sm2.EF = EFLit(260)

\* the review of such a card with nine recalls behind it, 8 of the last 20
\* reviews having failed: both multipliers are off 1
C11_Witness ==
    /\ fn.applied = "submitReview"
    /\ fn.card.n = 2 /\ fn.card.I = 6 /\ fn.card.EF = EFLit(250)
    /\ fn.card.totalSuccesses = 9
    /\ fn.q = 5
    /\ fn.userStats = [failed |-> 8, of |-> 20, total |-> 20]
    /\ fn.upd.eMult = 9 /\ fn.upd.rMult = 12
    /\ fn.upd.card.I = 17

\* the inclusion test of a stored card at time now: nextReviewAt absent, or
\* nextReviewAt <= now, or priorityScore >= 0.6
Included(c, now) ==
    \/ c.nextReviewAt = NoTime
    \/ c.nextReviewAt <= now
    \/ calculateCardStats(c, now).priorityScore * 10 >= 6 * StatScale

\* C12: getDueCards returns a card exactly once if it passes the inclusion
\* test and not at all if it fails it, and returns nothing else; a card
\* without nextReviewAt is returned at every time.
C12_DueSetMembership ==
    fn.applied = "getDueCards" =>
        /\ \A i \in 1 .. Len(fn.allCards) :
              Cardinality({j \in 1 .. Len(fn.due) : fn.due[j].id = fn.allCards[i].id})
                 = IF Included(fn.allCards[i], fn.now) THEN 1 ELSE 0
        /\ \A j \in 1 .. Len(fn.due) :
              \E i \in 1 .. Len(fn.allCards) : fn.allCards[i].id = fn.due[j].id
        /\ \A i \in 1 .. Len(fn.allCards) :
              fn.allCards[i].nextReviewAt = NoTime
              => \E j \in 1 .. Len(fn.due) : fn.due[j].id = fn.allCards[i].id

\* of two cards scheduled for a later day, the one with n = 0 is returned
\* for its priorityScore and the other one is left out
C12_Witness ==
    /\ fn.applied = "getDueCards"
    /\ Len(fn.allCards) = 2 /\ Len(fn.due) = 1
    /\ \A i \in 1 .. 2 : fn.allCards[i].nextReviewAt # NoTime
                         /\ fn.allCards[i].nextReviewAt > fn.now
    /\ fn.allCards[1].n > 0
    /\ fn.allCards[2].n = 0
    /\ fn.due[1].id = 2

\* C13: the sequence getDueCards returns is in non-increasing order of
\* priorityScore, new cards and scheduled cards alike.
C13_DueQueueOrder ==
    fn.applied = "getDueCards" =>
        \A j \in 1 .. Len(fn.due) - 1 :
            fn.due[j].priorityScore >= fn.due[j + 1].priorityScore

\* a scheduled card stored before a new card is returned behind it
C13_Witness ==
    /\ fn.applied = "getDueCards"
    /\ Len(fn.allCards) = 2 /\ Len(fn.due) = 2
    /\ fn.allCards[1].n > 0 /\ fn.allCards[2].nextReviewAt = NoTime
    /\ fn.due[1].id = 2 /\ fn.due[2].id = 1
    /\ fn.due[1].priorityScore = 100 * StatScale
    /\ fn.due[2].priorityScore < StatScale

\* the positions of the log entries reviewed within the 30 days before now
InWindow(allLogs, now) == {i \in 1 .. Len(allLogs) : allLogs[i].reviewedAt >= now - 30}

C15_LogAppendOnly ==
    [][IF /\ Ready("logs", "submit", "add")
          /\ dbq'["logs"] = Tail(dbq["logs"])
          /\ hung' = hung
       THEN /\ Len(logs') = Len(logs) + 1
            /\ SubSeq(logs', 1, Len(logs)) = logs
            /\ logs'[Len(logs')].cardId = Head(dbq["logs"]).pre.id
            /\ logs'[Len(logs')].q = Head(dbq["logs"]).q
       ELSE logs' = logs]_vars

\* two reviews of this run have been completed, of different cards, and
\* the entries that were there before are still there
C15_Witness ==
    /\ \E db \in Databases :
          /\ db.logs # <<>>
          /\ Len(logs) = Len(db.logs) + 2
          /\ SubSeq(logs, 1, Len(db.logs)) = db.logs
    /\ logs[Len(logs)].cardId # logs[Len(logs) - 1].cardId
    /\ logs[Len(logs)].reviewedAt >= StartDay
    /\ InFlight(dbq) = <<>>

\* the calls of submitReview for the card whose db.put has succeeded and
\* whose log entry has not been appended
Unlogged(id) == {c \in Computed : c.pc = "add" /\ c.pre.id = id}

\* C16: a log entry exists only if the card write of its review has been
\* made: the stored card of a logged review was last reviewed no earlier
\* than the entry says, and unless a later review of the card has been
\* written and not yet logged, the stored card has the I and EF of the last
\* entry of the card and a nextReviewAt advanced by that I.
C16_CardBeforeLog ==
    \A k \in 1 .. Len(logs) :
        LET e == logs[k]
            id == e.cardId
        IN  id \in DOMAIN cards =>
               /\ cards[id].lastReviewAt >= e.reviewedAt
               /\ (\A j \in (k + 1) .. Len(logs) : logs[j].cardId # id) /\ Unlogged(id) = {}
                  => /\ cards[id].I = e.intervalAfter
                     /\ cards[id].EF = e.EF
                     /\ cards[id].nextReviewAt = cards[id].lastReviewAt + e.intervalAfter

\* one review of this run is written and logged, and the next one was
\* written when its db.add failed: its card is stored, its entry is lost
C16_Witness ==
    /\ \E k \in 1 .. Len(logs) :
          /\ logs[k].reviewedAt >= StartDay
          /\ logs[k].cardId \in DOMAIN cards
          /\ Unlogged(logs[k].cardId) = {}
          /\ cards[logs[k].cardId].EF = logs[k].EF
    /\ \E c \in hung :
          /\ c.pc = "add"
          /\ cards[c.pre.id] = c.upd.card
          /\ \A k \in 1 .. Len(logs) : logs[k].cardId = c.pre.id => logs[k].reviewedAt < StartDay

\* the ids of the cards at or after index in the queue that were not
\* graded: no call of submitReview for them is under way or has failed
Remainder(queue, index, h, q, failed) ==
    {h[queue[i]].id : i \in (index + 1) .. Len(queue)}
    \ ({InFlight(q)[i].log.cardId :
           i \in {j \in 1 .. Len(InFlight(q)) : InFlight(q)[j].kind = "submit"}}
       \cup {c.log.cardId : c \in failed})

C18_EaseCorrection ==
    fn.applied = "submitReview" =>
        LET r == fn.userStats
            m == IF r.failed * 20 > 7 * r.of THEN 9
                 ELSE IF r.failed * 20 < 3 * r.of THEN 11
                 ELSE 10
        IN  /\ fn.upd.eMult = m
            /\ r.failed * 20 = 7 * r.of \/ r.failed * 20 = 3 * r.of => fn.upd.eMult = 10
            /\ fn.upd.card.EF = Max(Round(fn.sm2.EF * m, 10), EFLit(130))

\* a review under a forgetting rate of exactly 0.35: the EF of calculateSM2
\* is stored as it is
C18_Witness ==
    /\ fn.applied = "submitReview"
    /\ fn.userStats = [failed |-> 7, of |-> 20, total |-> 20]
    /\ fn.upd.eMult = 10
    /\ fn.sm2.EF > EFLit(130)
    /\ fn.upd.card.EF = fn.sm2.EF

\* C19: the interval submitReview stores is round(prior I * corrected EF *
\* rMult) when calculateSM2 returned n > 2 and q >= 3, 1 when q < 3, and the
\* interval of calculateSM2 otherwise; rMult is 0.8 when the card's
\* retentionScore is below 40, 1.2 when it is above 80 and 1.0 otherwise.
C19_FinalInterval ==
    fn.applied = "submitReview" =>
        LET rs == calculateCardStats(fn.card, fn.now).retentionScore
            rm == IF rs # Undefined /\ rs < 40 * ScoreUnit THEN 8
                  ELSE IF rs # Undefined /\ rs > 80 * ScoreUnit THEN 12
                  ELSE 10
        IN  /\ fn.upd.rMult = rm
            /\ fn.upd.card.I =
                  IF fn.sm2.n > 2 /\ fn.q >= 3
                  THEN Round(fn.card.I * fn.upd.card.EF * rm, EFScale * 10)
                  ELSE IF fn.q < 3 THEN 1
                  ELSE fn.sm2.I

\* a third recall in a row of a card with a retentionScore below 40: the
\* stored interval is not the one calculateSM2 returned
C19_Witness ==
    /\ fn.applied = "submitReview"
    /\ fn.sm2.n > 2 /\ fn.q >= 3
    /\ calculateCardStats(fn.card, fn.now).retentionScore < 40 * ScoreUnit
    /\ fn.upd.rMult = 8
    /\ fn.upd.card.I = Round(fn.card.I * fn.upd.card.EF * 8, EFScale * 10)
    /\ fn.upd.card.I # fn.sm2.I

\* C20: for q in 1 .. 5 calculateSM2 returns EF' = max(EF + 0.1 - d * (0.08 +
\* 0.02 * d), 1.3) with d = 5 - q, that is EF changed by +0.10, 0, -0.14,
\* -0.32, -0.54 for q = 5, 4, 3, 2, 1 and then floored; the same holds on a
\* lapse (q < 3), which does not set EF back to a fixed value.
C20_EaseFactorFormula ==
    fn.applied = "calculateSM2" /\ fn.q \in 1 .. 5 =>
        LET d == 5 - fn.q
            change == CASE fn.q = 5 -> EFLit(10)
                        [] fn.q = 4 -> 0
                        [] fn.q = 3 -> 0 - EFLit(14)
                        [] fn.q = 2 -> 0 - EFLit(32)
                        [] fn.q = 1 -> 0 - EFLit(54)
        IN  /\ change = EFLit(10) - d * (EFLit(8) + EFLit(2) * d)
            /\ fn.sm2.EF = Max(fn.card.EF + change, EFLit(130))

\* a lapse with q = 1 of a card with EF = 2.5 gives EF = 1.96
C20_Witness ==
    /\ fn.applied = "calculateSM2"
    /\ fn.q = 1
    /\ fn.card.EF = EFLit(250)
    /\ fn.sm2.n = 0
    /\ fn.sm2.EF = EFLit(196)

\* C22: every call of submitReview, getDueCards and getUserStats that was
\* started returns in the end, also when a request to the database ends in
\* an error: no call is left waiting for a promise that never settles.
C22_EveryCallReturns == hung = {}

\* C23: for a card with n = 0, whatever its other fields are,
\* calculateCardStats returns priorityScore = 100 and forgetRisk = 1.0.
C23_NewCardSentinel ==
    fn.applied = "calculateCardStats" /\ fn.card.n = 0 =>
        /\ fn.cs.priorityScore = 100 * StatScale
        /\ fn.cs.forgetRisk = StatScale

\* the statistics of a card that was recalled nine times and then forgotten,
\* asked for long after its review
C23_Witness ==
    /\ fn.applied = "calculateCardStats"
    /\ fn.card.n = 0
    /\ fn.card.lastReviewAt # NoTime /\ fn.now > fn.card.nextReviewAt
    /\ fn.card.totalSuccesses = 9 /\ fn.card.EF = EFLit(130)
    /\ fn.cs.priorityScore = 100 * StatScale
    /\ fn.cs.forgetRisk = StatScale

\* the review of fn was computed with both multipliers at 1.0: a forgetting
\* rate from 0.15 to 0.35 and a retentionScore from 40 to 80
Neutral ==
    /\ fn.applied = "submitReview"
    /\ 3 * fn.userStats.of <= fn.userStats.failed * 20
    /\ fn.userStats.failed * 20 <= 7 * fn.userStats.of
    /\ calculateCardStats(fn.card, fn.now).retentionScore # Undefined
    /\ calculateCardStats(fn.card, fn.now).retentionScore >= 40 * ScoreUnit
    /\ calculateCardStats(fn.card, fn.now).retentionScore <= 80 * ScoreUnit

\* C30 as stated: with both multipliers at 1.0 the n, I and EF submitReview
\* hands to db.put are the n, I and EF calculateSM2 returned.
C30_NeutralIsSM2AsStated ==
    Neutral => /\ fn.upd.card.n = fn.sm2.n
               /\ fn.upd.card.I = fn.sm2.I
               /\ fn.upd.card.EF = fn.sm2.EF

\* C30: with both multipliers at 1.0 the n and EF submitReview hands to
\* db.put are those calculateSM2 returned; the interval is the one of
\* calculateSM2 on a lapse, on the first two recalls in a row and for q = 4,
\* and round(prior I * new EF) from the third recall in a row on, where
\* calculateSM2 has round(prior I * prior EF).
C30_NeutralIsSM2 ==
    Neutral => /\ fn.upd.card.n = fn.sm2.n
               /\ fn.upd.card.EF = fn.sm2.EF
               /\ fn.upd.card.I = IF fn.sm2.n > 2 /\ fn.q >= 3
                                  THEN Round(fn.card.I * fn.sm2.EF, EFScale)
                                  ELSE fn.sm2.I
               /\ fn.sm2.n <= 2 \/ fn.q < 3 \/ fn.q = 4 => fn.upd.card.I = fn.sm2.I

\* the third recall in a row with q = 5 of a card with I = 6 and EF = 2.5:
\* calculateSM2 returns I = 15, the stored interval is round(6 * 2.6) = 16
C30_Witness ==
    /\ Neutral
    /\ fn.card.n = 2 /\ fn.card.I = 6 /\ fn.card.EF = EFLit(250)
    /\ fn.q = 5
    /\ fn.upd.eMult = 10 /\ fn.upd.rMult = 10
    /\ fn.sm2.I = 15
    /\ fn.upd.card.I = 16

\* C24: in every reachable state 0 <= currentCardIndex <= length(studyQueue),
\* and a page with grade buttons is shown only while studyQueue has an
\* element at currentCardIndex, so that submitReview reads an existing one.
C24_IndexBound ==
    /\ 0 <= currentCardIndex
    /\ currentCardIndex <= Len(studyQueue)
    /\ screen.view = "study" => currentCardIndex < Len(studyQueue)

\* C25: in a session in which no card is deleted, every completed
\* submitReview is the review of the card at currentCardIndex, moves
\* currentCardIndex on by exactly one and hides the answer, and the
\* session-complete page is shown exactly when the index has reached the
\* length of the queue; so the cards are reviewed in queue order, each once,
\* and a queue of L cards is complete after L reviews.
C25_SessionProgress ==
    [][/\ Ready("logs", "submit", "add")
       /\ dbq'["logs"] = Tail(dbq["logs"])
       /\ hung' = hung
       /\ ~Pending("delete")
       /\ DOMAIN cards = CardIds
       /\ Len(studyQueue) = NumCards
       => /\ currentCardIndex < Len(studyQueue)
          /\ heap[studyQueue[currentCardIndex + 1]].id = Head(dbq["logs"]).log.cardId
          /\ currentCardIndex' = currentCardIndex + 1
          /\ isShowingAnswer' = FALSE
          /\ (screen'.view = "empty") = (currentCardIndex' >= Len(studyQueue))
      ]_vars

\* the ids of the cards a getDueCards computed now returns
DueNow ==
    LET due == getDueCards(AllCards(cards, 1), clock)
    IN  {due[i].id : i \in 1 .. Len(due)}

\* the stored cards whose latest review has been written and logged: no
\* later review of the card is written and waiting for its log entry
Settled ==
    {id \in DOMAIN cards : ReviewsOf(id) # <<>> /\ Unlogged(id) = {}}

\* C26: a card whose latest completed review had q < 3 is stored with n = 0
\* and a nextReviewAt one day after the review, and every getDueCards
\* includes it; a card whose latest completed review had q >= 3 is not in a
\* getDueCards computed at the time of that review.
C26_LapsedDueAtOnce ==
    \A id \in Settled :
        LET last == ReviewsOf(id)[Len(ReviewsOf(id))]
        IN  /\ last.q < 3 => /\ cards[id].n = 0
                             /\ cards[id].nextReviewAt = cards[id].lastReviewAt + 1
                             /\ id \in DueNow
            /\ last.q >= 3 /\ last.reviewedAt = clock => id \notin DueNow

\* after a session on one day: a card that was forgotten is due although its
\* nextReviewAt is a day ahead, a card that was recalled is not
C26_Witness ==
    /\ InFlight(dbq) = <<>> /\ hung = {}
    /\ \E id \in Settled :
          /\ ReviewsOf(id)[Len(ReviewsOf(id))].q < 3
          /\ ReviewsOf(id)[Len(ReviewsOf(id))].reviewedAt = clock
          /\ cards[id].nextReviewAt = clock + 1
          /\ id \in DueNow
    /\ \E id \in Settled :
          /\ ReviewsOf(id)[Len(ReviewsOf(id))].q >= 3
          /\ ReviewsOf(id)[Len(ReviewsOf(id))].reviewedAt = clock
          /\ id \notin DueNow

\* the number of log entries of the card with q >= 3
Successes(id) == Len(SelectSeq(ReviewsOf(id), LAMBDA l : l.q >= 3))

\* C27: while no request has failed, the totalSuccesses of a stored card is
\* the number of its log entries with q >= 3 once its reviews are logged; a
\* review adds exactly one to totalSuccesses when q >= 3 and leaves it when
\* q < 3; and n <= totalSuccesses for every card, stored or in the queue.
C27_SuccessCounter ==
    /\ hung = {} =>
          \A id \in DOMAIN cards :
              Unlogged(id) = {} => cards[id].totalSuccesses = Successes(id)
    /\ \A c \in Computed :
          c.upd.card.totalSuccesses
             = c.pre.totalSuccesses + (IF c.q >= 3 THEN 1 ELSE 0)
    /\ \A id \in DOMAIN cards : cards[id].n <= cards[id].totalSuccesses
    /\ \A r \in DOMAIN heap : heap[r].n <= heap[r].totalSuccesses

\* a session of this run in which one card was recalled for the third time
\* and the other, with two recalls behind it, was forgotten
C27_Witness ==
    /\ InFlight(dbq) = <<>> /\ hung = {}
    /\ \E id \in Settled :
          /\ ReviewsOf(id)[Len(ReviewsOf(id))].reviewedAt >= StartDay
          /\ ReviewsOf(id)[Len(ReviewsOf(id))].q >= 3
          /\ cards[id].totalSuccesses = 3 /\ Successes(id) = 3
    /\ \E id \in Settled :
          /\ ReviewsOf(id)[Len(ReviewsOf(id))].reviewedAt >= StartDay
          /\ ReviewsOf(id)[Len(ReviewsOf(id))].q < 3
          /\ cards[id].n = 0
          /\ cards[id].totalSuccesses = 2 /\ Successes(id) = 2

\* the ids of the cards of a queue, in queue order
QueueIds(queue, h) == [i \in 1 .. Len(queue) |-> h[queue[i]].id]

\* C28: when deleteCardFromStudy completes for a card, the card is absent
\* from the card store and from studyQueue, the other queue cards keep
\* their order, currentCardIndex is unchanged, the card that followed is
\* shown with the answer hidden, no log entry is written, and the
\* session-complete page is shown exactly when no card is at
\* currentCardIndex.
C28_DeleteCurrentCard ==
    [][/\ Ready("cards", "delete", "del")
       /\ dbq'["cards"] = Tail(dbq["cards"])
       => LET key == Head(dbq["cards"]).key
              before == QueueIds(studyQueue, heap)
              after == QueueIds(studyQueue', heap')
          IN  /\ key \notin DOMAIN cards'
              /\ \A i \in 1 .. Len(after) : after[i] # key
              /\ after = SelectSeq(before, LAMBDA id : id # key)
              /\ currentCardIndex' = currentCardIndex
              /\ logs' = logs
              /\ (screen'.view = "empty") = (currentCardIndex' >= Len(studyQueue'))
              /\ currentCardIndex' < Len(studyQueue')
                    => /\ screen'.view = "study"
                       /\ screen'.cardId = after[currentCardIndex' + 1]
                       /\ ~screen'.answer /\ ~isShowingAnswer'
      ]_vars

\* C21: only the write of a graded review changes the stored scheduling
\* state: in every other step (saveCard for an existing card, also on the
\* way back to the study page, getDueCards, startSession, flipCard, ...) each
\* stored card keeps n, I, EF, nextReviewAt, lastReviewAt and
\* totalSuccesses, and a card that enters the store has n = 0, I = 0,
\* EF = 2.5, no nextReviewAt, no lastReviewAt and totalSuccesses = 0.
C21_OnlyReviewSchedules ==
    [][~Ready("cards", "submit", "put")
       => \A id \in DOMAIN cards' :
             Scheduling(cards'[id]) = IF id \in DOMAIN cards
                                      THEN Scheduling(cards[id])
                                      ELSE Scheduling(NewCard(id))
      ]_vars

\* where a card stands in a list of distinct cards
Position(list, card) == CHOOSE i \in 1 .. Len(list) : list[i] = card

\* one list holds the elements of the other, each as often
IsPermutation(a, b) ==
    /\ Len(a) = Len(b)
    /\ \E p \in [1 .. Len(a) -> 1 .. Len(a)] :
          /\ \A i, j \in 1 .. Len(a) : p[i] = p[j] => i = j
          /\ \A i \in 1 .. Len(a) : a[i] = b[p[i]]

\* C29: the queue startSession builds is a permutation of what getDueCards
\* returned; with a deck filter set every card of the selected deck stands
\* before every card of another deck, and within the two groups the cards
\* keep the order getDueCards gave them (without a filter the queue is the
\* list itself); when no card is due, studyQueue, currentCardIndex and
\* isShowingAnswer stay as they were.
C29_FilterOnlyReorders ==
    fn.applied = "startSession"
    => LET due == fn.due
           queue == fn.session.studyQueue
           selected(c) == fn.filter # 0 /\ c.deckId = fn.filter
       IN  IF due = <<>> THEN fn.session = fn.before
           ELSE /\ IsPermutation(queue, due)
                /\ \A i, j \in 1 .. Len(queue) :
                      i < j /\ selected(queue[j]) => selected(queue[i])
                /\ \A i, j \in 1 .. Len(queue) :
                      i < j /\ selected(queue[i]) = selected(queue[j])
                      => Position(due, queue[i]) < Position(due, queue[j])

\* startSession has moved two cards of the selected deck, of different
\* priority, in front of a card of another deck that getDueCards put first
C29_Witness ==
    /\ fn.applied = "startSession"
    /\ fn.filter # 0
    /\ Len(fn.due) = 3
    /\ fn.due[1].deckId # fn.filter
    /\ fn.due[2].deckId = fn.filter /\ fn.due[3].deckId = fn.filter
    /\ fn.due[2].priorityScore > fn.due[3].priorityScore
    /\ fn.session.studyQueue = <<fn.due[2], fn.due[3], fn.due[1]>>

====
